---- MODULE Spec2Model ----
(***************************************************************************)
(* A model of amarajs/plugin-events (src/src/index.js): the middleware     *)
(* that binds event maps to DOM nodes, filters events by delegation        *)
(* selector and key/button value, and lets handlers dispatch actions as    *)
(* DOM events.                                                             *)
(*                                                                         *)
(* JavaScript runs every host action, native event and deferred callback   *)
(* to completion on one thread.  The model keeps the JavaScript call stack *)
(* in the variable `stack`: a new host action, native event or deferred    *)
(* call starts only when the stack is empty, and while it is not empty the *)
(* only enabled step is the next step of the frame on top.                 *)
(*                                                                         *)
(* Strings the code parses are sequences of one-character strings, so that *)
(* split, trim and toLowerCase are computed and not assumed.               *)
(***************************************************************************)
EXTENDS Integers, Sequences, FiniteSets, TLC

(***************************************************************************)
(* Bounds of the model.                                                    *)
(***************************************************************************)
\* Host actions, native events and deferred calls in one behaviour.
MaxOps == 3
\* Effects (dispatch, stopPropagation, attribute changes) that the user
\* handlers may perform in total while one of those operations runs.
MaxFuel == 2

(***************************************************************************)
(* Strings.                                                                *)
(***************************************************************************)
Null == "null"
Undefined == "undefined"

UpperChars == <<"A","B","C","D","E","F","G","H","I","J","K","L","M",
                "N","O","P","Q","R","S","T","U","V","W","X","Y","Z">>
LowerChars == <<"a","b","c","d","e","f","g","h","i","j","k","l","m",
                "n","o","p","q","r","s","t","u","v","w","x","y","z">>

\* String.prototype.toLowerCase, one character.
LowerChar(c) ==
    IF \E i \in 1..Len(UpperChars) : UpperChars[i] = c
    THEN LowerChars[CHOOSE i \in 1..Len(UpperChars) : UpperChars[i] = c]
    ELSE c

toLowerCase(s) == [i \in 1..Len(s) |-> LowerChar(s[i])]

\* The characters \s matches and trim() strips, among those the model uses.
IsSpace(c) == c \in {" ", "\t"}

RECURSIVE trimStart(_)
trimStart(s) ==
    IF s # <<>> /\ IsSpace(Head(s)) THEN trimStart(Tail(s)) ELSE s

RECURSIVE trimEnd(_)
trimEnd(s) ==
    IF s # <<>> /\ IsSpace(s[Len(s)])
    THEN trimEnd(SubSeq(s, 1, Len(s) - 1))
    ELSE s

\* const trim = (s) => s.trim();
trim(s) == trimEnd(trimStart(s))

\* const trimLower = (s) => s.trim().toLowerCase();
trimLower(s) == toLowerCase(trim(s))

\* String.prototype.split(sep) for a one-character separator: the pieces
\* between the separators, empty pieces kept ("".split(",") is [""]).
RECURSIVE splitFrom(_, _, _)
splitFrom(s, sep, piece) ==
    IF s = <<>> THEN <<piece>>
    ELSE IF Head(s) = sep THEN <<piece>> \o splitFrom(Tail(s), sep, <<>>)
    ELSE splitFrom(Tail(s), sep, Append(piece, Head(s)))

split(s, sep) == splitFrom(s, sep, <<>>)

\* .filter(Boolean) on strings: the empty string is falsy.
NonEmpty(s) == s # <<>>

\* String.prototype.startsWith.
startsWith(s, prefix) ==
    /\ Len(s) >= Len(prefix)
    /\ SubSeq(s, 1, Len(prefix)) = prefix

\* The length of the longest prefix of s without whitespace: ^[^\s]+ is
\* greedy, and what follows it in the expression matches any rest.
RECURSIVE NonSpacePrefix(_)
NonSpacePrefix(s) ==
    IF s = <<>> \/ IsSpace(Head(s)) THEN 0 ELSE 1 + NonSpacePrefix(Tail(s))

\* const rxEventAndSelectors = /(^[^\s]+)\s*?(.*?)$/; as it is used:
\* (rxEventAndSelectors.exec(s) || []).slice(1), which is empty when s is
\* empty or starts with whitespace, and else holds the two groups.  The
\* lazy \s*? takes nothing, so the second group is the whole rest.
rxEventAndSelectors(s) ==
    LET n == NonSpacePrefix(s) IN
    IF n = 0 THEN <<>>
    ELSE <<SubSeq(s, 1, n), SubSeq(s, n + 1, Len(s))>>

s_space == <<"s","p","a","c","e">>
s_left == <<"l","e","f","t">>
s_middle == <<"m","i","d","d","l","e">>
s_wheel == <<"w","h","e","e","l">>
s_right == <<"r","i","g","h","t">>
s_del == <<"d","e","l">>
s_delete == <<"d","e","l","e","t","e">>
s_undefined == <<"u","n","d","e","f","i","n","e","d">>
s_amara == <<"a","m","a","r","a",":">>
s_add == s_amara \o <<"a","d","d">>
s_apply == s_amara \o <<"a","p","p","l","y">>
s_remove == s_amara \o <<"r","e","m","o","v","e">>
s_click == <<"c","l","i","c","k">>
s_keydown == <<"k","e","y","d","o","w","n">>
s_keyup == <<"k","e","y","u","p">>
s_keypress == <<"k","e","y","p","r","e","s","s">>
s_mousedown == <<"m","o","u","s","e","d","o","w","n">>
s_mouseup == <<"m","o","u","s","e","u","p">>
s_x == <<"x">>
s_space_char == <<" ">>
s_div == <<"d","i","v">>

\* A variant that leaves the friendly names as they are.
asMeta_Verbatim(value) == value

\* function asMeta(value)
asMeta(value) ==
    CASE value = s_space -> <<" ">>
      [] value = s_left -> <<"0">>
      [] value = s_middle -> <<"1">>
      [] value = s_wheel -> <<"1">>
      [] value = s_right -> <<"2">>
      [] OTHER -> value

\* A variant without the fixup.
fixMeta_None(value) == value

\* function fixMeta(value)
fixMeta(value) ==
    CASE value = s_del -> s_delete
      [] OTHER -> value

\* const metaEventMap: the event property compared with the meta tokens.
metaEventMap(type) ==
    CASE type \in {s_keydown, s_keyup, s_keypress} -> "key"
      [] type \in {s_mousedown, s_mouseup} -> "button"
      [] OTHER -> Undefined

(***************************************************************************)
(* The document the engine runs in: three elements, <main> with one child  *)
(* <div>, which has one child <span>.  Element.matches is the selector     *)
(* capability of the platform.                                             *)
(***************************************************************************)
Nodes == {"main", "div", "span"}

parentNode(n) ==
    CASE n = "span" -> "div"
      [] n = "div" -> "main"
      [] OTHER -> Null

s_main == <<"m","a","i","n">>
s_span == <<"s","p","a","n">>
s_star == <<"*">>

tagName(n) ==
    CASE n = "span" -> s_span
      [] n = "div" -> s_div
      [] OTHER -> s_main

\* Element.prototype.matches for type selectors and the universal selector.
ElementMatches(n, selector) == selector = tagName(n) \/ selector = s_star

\* A variant that also accepts a selector matching the element's parent.
matches_OrParent(this, selector) ==
    \/ ElementMatches(this, selector)
    \/ parentNode(this) # Null /\ ElementMatches(parentNode(this), selector)

\* function matches(selector) { return this.matches(selector); }
matches(this, selector) == ElementMatches(this, selector)

\* The nodes an event visits in its bubble phase: its target and, when it
\* bubbles, the target's ancestors (the engine adds no capture listeners).
RECURSIVE Ancestors(_)
Ancestors(n) ==
    IF parentNode(n) = Null THEN <<>>
    ELSE <<parentNode(n)>> \o Ancestors(parentNode(n))

EventPath(target, bubbles) ==
    IF bubbles THEN <<target>> \o Ancestors(target) ELSE <<target>>

(***************************************************************************)
(* JavaScript values of event properties, and String(value).               *)
(***************************************************************************)
JsUndefined == [t |-> "undefined"]
JsString(s) == [t |-> "string", v |-> s]
JsNumber(n) == [t |-> "number", v |-> n]

Digits == <<"0","1","2","3","4","5","6","7","8","9">>

RECURSIVE NatToString(_)
NatToString(n) ==
    IF n < 10 THEN <<Digits[n + 1]>>
    ELSE NatToString(n \div 10) \o <<Digits[(n % 10) + 1]>>

String(value) ==
    CASE value.t = "undefined" -> s_undefined
      [] value.t = "number" -> NatToString(value.v)
      [] OTHER -> value.v

(***************************************************************************)
(* The inputs: event maps, host action payloads, native events.            *)
(***************************************************************************)
\* An EventMap is the sequence of its <<key, handler>> entries in the order
\* Object.keys lists them.
s_dot == <<".">>
s_comma == <<",">>
s_Enter == <<"E","n","t","e","r">>
s_Del == <<"D","e","l">>
s_Delete == <<"D","e","l","e","t","e">>

\* The keys of the event maps, as written in the maps.
Keys ==
    [clickDiv |-> s_click \o s_space_char \o s_div,
     clickMain |-> s_click \o s_space_char \o s_main,
     clickMainDiv |-> s_click \o s_space_char \o s_main \o s_space_char
                         \o s_comma \o s_space_char \o s_div,
     clickStar |-> s_click \o s_space_char \o s_star,
     addDiv |-> s_add \o s_space_char \o s_div,
     AmaraAddDiv |-> <<"A","m","a","r","a",":","A","d","d"," ","d","i","v">>,
     keydownEnterSpace |-> s_keydown \o s_dot \o s_Enter \o s_dot \o s_space,
     keydownSpace |-> s_keydown \o s_dot \o s_space,
     keydownDelete |-> s_keydown \o s_dot \o s_delete,
     keydownDel |-> s_keydown \o s_dot \o s_del,
     mousedownLeft |-> s_mousedown \o s_dot \o s_left,
     mousedownMiddle |-> s_mousedown \o s_dot \o s_middle,
     mousedownWheel |-> s_mousedown \o s_dot \o s_wheel,
     mousedownRight |-> s_mousedown \o s_dot \o s_right,
     mousedown2 |-> s_mousedown \o s_dot \o <<"2">>,
     Click |-> <<"C","l","i","c","k">>,
     empty |-> <<>>,
     spaceClick |-> s_space_char \o s_click]

MapClickX == << <<s_click, "h1">>, <<s_x, "h2">> >>
MapClicks == << <<Keys.clickDiv, "h2">>, <<s_click, "h3">> >>
MapLife == << <<s_add, "h1">>, <<s_apply, "h2">>, <<s_remove, "h3">> >>
MapBad == << <<s_click, "h1">>, <<Keys.addDiv, "h2">>, <<s_x, "h3">> >>

\* payload.events of core:apply-target-results: the <<target, EventMap[]>>
\* pairs in the order forEach visits them.  The span is never a target.
ApplyPayloads ==
    { << <<"div", <<MapClickX, MapClicks>> >> >>,
      << <<"div", <<MapClicks>> >> >>,
      << <<"div", <<MapLife>> >> >>,
      << <<"div", <<>> >> >>,
      << <<"div", <<MapBad>> >> >>,
      << <<"main", <<MapClicks>> >>, <<"div", <<MapLife>> >> >> }

\* payload of engine:targets-removed.
RemovedPayloads == { <<"div">>, <<"div", "div">>, <<"main", "div">> }

\* action.type of the actions user handlers dispatch as events.
ActionTypes == { s_x }

\* The nodes the bootstrap actions name as the root.
RootChoices == { "main", "div" }

\* Inputs that exercise the root listener: handlers for lifecycle events on
\* the root and above it, and handlers that dispatch a lifecycle type.
RootPayloads ==
    { << <<"div", <<MapClickX>> >> >>,
      << <<"main", <<MapClicks, MapLife>> >>, <<"div", <<MapLife>> >> >> }

RootActionTypes == { s_x, s_apply }

\* The events the browser fires by itself.
NativeEvents ==
    { [type |-> s_click, target |-> n, bubbles |-> TRUE,
       key |-> JsUndefined, button |-> JsNumber(0), origin |-> "native"] :
      n \in {"main", "div"} }

(***************************************************************************)
(* Inputs that exercise the key grammar and the filters of eventHandler.   *)
(***************************************************************************)
s_Go == <<"G","o">>
s_ab == <<"a",".","b">>

MapKeyboard ==
    << <<s_keydown, "h1">>, <<Keys.keydownEnterSpace, "h2">>,
       <<Keys.keydownDelete, "h3">>, <<Keys.keydownDel, "h4">>,
       <<Keys.keydownSpace, "h1">> >>
MapMouse ==
    << <<Keys.mousedownLeft, "h1">>, <<Keys.mousedownMiddle, "h2">>,
       <<Keys.mousedownWheel, "h3">>, <<Keys.mousedownRight, "h4">>,
       <<Keys.mousedown2, "h1">>, <<s_mousedown, "h2">> >>
MapDelegated ==
    << <<Keys.clickDiv, "h1">>, <<Keys.clickMain, "h2">>,
       <<Keys.clickMainDiv, "h3">>, <<s_click, "h4">> >>
MapSame == << <<s_click, "h1">>, <<Keys.clickStar, "h1">> >>
MapActions ==
    << <<s_click, "h1">>, <<s_Go, "h2">>, <<s_ab, "h3">>, <<s_x, "h4">> >>
MapHeads == << <<s_wheel, "h1">>, <<Keys.Click, "h2">> >>
MapBadUpper ==
    << <<s_x, "h1">>, <<Keys.AmaraAddDiv, "h2">>, <<s_click, "h3">> >>

KeyPayloads ==
    { << <<"div", <<MapKeyboard>> >> >>,
      << <<"div", <<MapMouse>> >> >>,
      << <<"main", <<MapDelegated>> >> >>,
      << <<"div", <<MapSame, MapSame>> >> >>,
      << <<"div", <<MapActions>> >> >>,
      << <<"div", <<MapHeads>> >> >>,
      << <<"div", <<MapSame, MapBad>> >>, <<"main", <<MapSame>> >> >>,
      << <<"div", <<MapBadUpper>> >> >>,
      << <<"div", << << <<s_click, "h1">>, <<Keys.empty, "h2">> >> >> >> >>,
      << <<"div", << << <<Keys.spaceClick, "h1">>, <<s_x, "h2">> >> >> >> >>,
      << <<"div", <<MapBad>> >> >> }

\* KeyboardEvent.key values and MouseEvent.button values of the events.
KeyEvents ==
    { [type |-> s_keydown, target |-> "div", bubbles |-> TRUE,
       key |-> JsString(k), button |-> JsUndefined, origin |-> "native"] :
      k \in {s_Enter, s_space_char, s_Del, s_Delete} }
    \union
    { [type |-> s_mousedown, target |-> "div", bubbles |-> TRUE,
       key |-> JsUndefined, button |-> JsNumber(b), origin |-> "native"] :
      b \in 0..2 }
    \union
    { [type |-> s_click, target |-> n, bubbles |-> TRUE,
       key |-> JsUndefined, button |-> JsNumber(0), origin |-> "native"] :
      n \in Nodes }
    \union
    { [type |-> s_wheel, target |-> "div", bubbles |-> TRUE,
       key |-> JsUndefined, button |-> JsNumber(0), origin |-> "native"] }

\* action.type of the actions the handlers of these maps dispatch.
KeyActionTypes == { s_Go, s_ab, s_x }

(***************************************************************************)
(* The state.                                                              *)
(***************************************************************************)
VARIABLES
    root,            \* let root = null
    async,           \* let async = true
    targetHandlers,  \* the WeakMap: a function from the nodes that have an
                     \* entry to their Map, a sequence of <<event type,
                     \* eventHandler array>> pairs in insertion order
    listeners,       \* node -> its event listener list, [type, fn] records
    disabled,        \* node -> whether it has the attribute "disabled"
    attrOps,         \* node -> [setAttribute, removeAttribute]: 0 for the
                     \* native method, d for the one patched in by the
                     \* dispatchActionAsEvent frame at stack position d
    stack,           \* the JavaScript call stack, the innermost frame last
    lastError,       \* what the last operation threw to its caller, or Null
    ops,             \* operations started so far
    fuel,            \* handler effects left to the running operation
    forwarded,       \* the actions the running operation has passed to
                     \* the host dispatcher, in order: the action's type
                     \* and the node whose listener passed it
    gen,             \* node -> apply-calls begun for it, ever
    hist             \* node -> what the claims need of its history

vars == <<root, async, targetHandlers, listeners, disabled, attrOps, stack,
          lastError, ops, fuel, forwarded, gen, hist>>

engineVars == <<root, async, targetHandlers, listeners, disabled, attrOps>>

\* hist[n]: applyCalls: apply-calls begun for n since it was last named in
\* targets-removed; addCount: amara:add dispatches the engine made on n
\* since then; first: the EventMap[] of the first of those apply-calls;
\* results: the EventMap[] of the latest apply-call for n; earlier: the
\* handlers all apply-calls before the latest supplied; complete: whether
\* the latest call returned; removed: n was named in targets-removed and
\* not applied since; entry, removeCount, removeRuns: since the first
\* apply-call after n was last reported removed, whether a key was bound
\* for n, the amara:remove events the engine dispatched on n, and the
\* handlers those events invoked; dispatcher: a handler bound on n has
\* been handed e.dispatch; wasRoot: a bootstrap action has named n; threw:
\* the error the latest apply-call for n threw, or Null.
HistInit ==
    [applyCalls |-> 0, addCount |-> 0, first |-> <<>>, results |-> <<>>,
     earlier |-> {}, complete |-> FALSE, removed |-> FALSE, entry |-> FALSE,
     removeCount |-> 0, removeRuns |-> 0, dispatcher |-> FALSE,
     wasRoot |-> FALSE, threw |-> Null]

\* The handler functions an EventMap[] holds.
HandlersOf(results) ==
    UNION { { results[m][k][2] : k \in 1..Len(results[m]) } :
            m \in 1..Len(results) }

Init ==
    /\ root = Null
    /\ async = TRUE
    /\ targetHandlers = <<>>
    /\ listeners = [n \in Nodes |-> <<>>]
    /\ disabled \in { d \in [Nodes -> BOOLEAN] : ~ d["span"] }
    /\ attrOps = [n \in Nodes |-> [setAttribute |-> 0, removeAttribute |-> 0]]
    /\ stack = <<>>
    /\ lastError = Null
    /\ ops = 0
    /\ fuel = 0
    /\ forwarded = <<>>
    /\ gen = [n \in Nodes |-> 0]
    /\ hist = [n \in Nodes |-> HistInit]

Top == stack[Len(stack)]
Pop == SubSeq(stack, 1, Len(stack) - 1)
SetTop(f) == [stack EXCEPT ![Len(stack)] = f]
Running(kind, pc) == stack # <<>> /\ Top.kind = kind /\ Top.pc = pc

(***************************************************************************)
(* The platform: event listener lists.                                     *)
(***************************************************************************)
Listener(type, fn) == [type |-> type, fn |-> fn]

\* EventTarget.addEventListener(type, fn): a listener already in the list
\* with the same type and callback is not added again.
addEventListener(ls, type, fn) ==
    IF \E i \in 1..Len(ls) : ls[i] = Listener(type, fn)
    THEN ls
    ELSE Append(ls, Listener(type, fn))

\* EventTarget.removeEventListener(type, fn).
removeEventListener(ls, type, fn) ==
    LET Keep(l) == l # Listener(type, fn) IN SelectSeq(ls, Keep)

\* The listeners of one type, as dispatch clones them on reaching a node.
ListenersOfType(ls, type) ==
    LET Is(l) == l.type = type IN SelectSeq(ls, Is)

\* function removeListener(handler), mapped over handlers by
\* function removeListeners(handlers, type), with this = target.
RECURSIVE removeListeners(_, _, _)
removeListeners(ls, handlers, type) ==
    IF handlers = <<>> THEN ls
    ELSE removeListeners(removeEventListener(ls, type, Head(handlers)),
                         Tail(handlers), type)

\* mapEventHandlers.forEach(removeListeners, target)
RECURSIVE removeAllListeners(_, _)
removeAllListeners(ls, mapEventHandlers) ==
    IF mapEventHandlers = <<>> THEN ls
    ELSE removeAllListeners(
             removeListeners(ls, Head(mapEventHandlers)[2],
                             Head(mapEventHandlers)[1]),
             Tail(mapEventHandlers))

\* WeakMap.prototype.has / set / delete on a function from nodes.
WeakMapHas(wm, n) == n \in DOMAIN wm
WeakMapSet(wm, n, value) ==
    [x \in DOMAIN wm \union {n} |-> IF x = n THEN value ELSE wm[x]]
\* A variant that keeps the entry.
WeakMapDelete_Kept(wm, n) == wm

WeakMapDelete(wm, n) == [x \in DOMAIN wm \ {n} |-> wm[x]]

\* Map.prototype.has / get / set on a sequence of <<key, value>> pairs.
MapHas(m, key) == \E i \in 1..Len(m) : m[i][1] = key
MapGet(m, key) == m[CHOOSE i \in 1..Len(m) : m[i][1] = key][2]
MapSet(m, key, value) ==
    IF MapHas(m, key)
    THEN [i \in 1..Len(m) |-> IF m[i][1] = key THEN <<key, value>> ELSE m[i]]
    ELSE Append(m, <<key, value>>)

(***************************************************************************)
(* addHandlerForEvent: parsing the key and building the listener.          *)
(***************************************************************************)
\* selectors.split(',').map(trim).filter(Boolean)
Delegates(selectors) ==
    LET pieces == split(selectors, ",")
        trimmed == [i \in 1..Len(pieces) |-> trim(pieces[i])]
    IN SelectSeq(trimmed, NonEmpty)

\* eventMeta.split('.').map(trimLower).map(asMeta): [event, ...meta]
EventAndMeta(eventMeta) ==
    LET pieces == split(eventMeta, ".")
    IN [i \in 1..Len(pieces) |-> asMeta(trimLower(pieces[i]))]

\* A variant that tests the event name as written, before trimLower.
ParseKey_RawPrefix(eventAndSelectors) ==
    LET groups == rxEventAndSelectors(eventAndSelectors) IN
    IF groups = <<>>
    THEN [outcome |-> "TypeError", event |-> <<>>, meta |-> <<>>,
          delegates |-> <<>>]
    ELSE LET delegates == Delegates(groups[2])
             parts == EventAndMeta(groups[1])
         IN [outcome |-> IF startsWith(groups[1], s_amara) /\ delegates # <<>>
                         THEN "delegation" ELSE "ok",
             event |-> Head(parts), meta |-> Tail(parts),
             delegates |-> delegates]

\* What addHandlerForEvent does with one key: "TypeError" when the regular
\* expression does not match (eventMeta is undefined and eventMeta.split
\* throws), "delegation" when throwError is called, else "ok" with the
\* event type, meta tokens and delegates the listener closes over.
ParseKey(eventAndSelectors) ==
    LET groups == rxEventAndSelectors(eventAndSelectors) IN
    IF groups = <<>>
    THEN [outcome |-> "TypeError", event |-> <<>>, meta |-> <<>>,
          delegates |-> <<>>]
    ELSE LET delegates == Delegates(groups[2])
             parts == EventAndMeta(groups[1])
             event == Head(parts)
         IN [outcome |-> IF startsWith(event, s_amara) /\ delegates # <<>>
                         THEN "delegation" ELSE "ok",
             event |-> event, meta |-> Tail(parts), delegates |-> delegates]

\* A variant in which the maps of one apply-call share one function object
\* per key and handler.
EventHandlerFn_Shared(target, g, m, k, key, handler) ==
    LET parsed == ParseKey(key) IN
    [kind |-> "eventHandler", target |-> target, id |-> <<g, 1, 1>>,
     key |-> key, event |-> parsed.event, meta |-> parsed.meta,
     delegates |-> parsed.delegates, handler |-> handler]

\* The closure eventHandler that addHandlerForEvent creates for entry k of
\* map m in apply-call g of target: a new function object every time.
EventHandlerFn(target, g, m, k, key, handler) ==
    LET parsed == ParseKey(key) IN
    [kind |-> "eventHandler", target |-> target, id |-> <<g, m, k>>,
     key |-> key, event |-> parsed.event, meta |-> parsed.meta,
     delegates |-> parsed.delegates, handler |-> handler]

ProxyToAmaraFn == [kind |-> "proxyToAmara"]

\* The two early returns of eventHandler(e): whether the user handler runs.
EventProperty(e, name) ==
    CASE name = "key" -> e.key
      [] name = "button" -> e.button
      [] OTHER -> JsUndefined

MetaValue(e) == fixMeta(toLowerCase(String(EventProperty(e, metaEventMap(e.type)))))

Includes(seq, x) == \E i \in 1..Len(seq) : seq[i] = x

PassesFilters(fn, e) ==
    /\ ~ (/\ fn.delegates # <<>>
          /\ ~ \E i \in 1..Len(fn.delegates) : matches(e.target, fn.delegates[i]))
    /\ ~ (/\ fn.meta # <<>>
          /\ ~ Includes(fn.meta, toLowerCase(MetaValue(e))))

(***************************************************************************)
(* Frames of the call stack.                                               *)
(***************************************************************************)
\* handler(action) for core:apply-target-results and engine:targets-removed:
\* the forEach over the payload, i the next element.
HandlerFrame(type, payload) ==
    [kind |-> "handler", pc |-> "forEach", type |-> type,
     payload |-> payload, i |-> 1]

\* applyEventsToTarget(results, target): context.added, the number n of
\* the next key the two forEach loops visit, and the number j of the next
\* The recorded root and, for the nodes other than t, the registry entries
\* and the listener lists, as they are when a call for t begins.
OthersOf(t) ==
    [root |-> root,
     entries |-> [n \in DOMAIN targetHandlers \ {t} |-> targetHandlers[n]],
     attached |-> [n \in Nodes \ {t} |-> listeners[n]]]

\* lifecycle event.  dispatched lists the lifecycle events the call has
\* dispatched; hadEntry tells whether targetHandlers.get(target) gave a
\* Map at line 175, when the call began; before is OthersOf(target) at the
\* time of the call.
ApplyFrame(target, results) ==
    [kind |-> "applyEventsToTarget", pc |-> "clear", target |-> target,
     results |-> results, added |-> FALSE, n |-> 1, j |-> 1,
     dispatched |-> <<>>, hadEntry |-> FALSE, before |-> OthersOf(target)]

\* removeTargetHandlers(target)
RemoveFrame(target) ==
    [kind |-> "removeTargetHandlers", pc |-> "get", target |-> target,
     dispatched |-> <<>>, before |-> OthersOf(target)]

\* syncDispatch(dispatcher, action)
SyncFrame(target, type) ==
    [kind |-> "syncDispatch", pc |-> "call", target |-> target, type |-> type]

\* dispatchActionAsEvent(action, eventInitOptions) of target's dispatcher.
\* origin: "engine" (syncDispatch), "user" (e.dispatch in a handler) or
\* "deferred" (a kept e.dispatch called from an empty stack).  meta is the
\* object prePatchDisabledBug fills.  forwards counts the calls of the host
\* dispatcher with this action; reachedRoot tells that the event was
\* delivered to the root node; had tells whether the target had the attribute
\* 'disabled' when prePatchDisabledBug began; lastSet is the last call a
\* user handler made, during this call, of the target's setAttribute
\* ("set") or removeAttribute ("remove") for 'disabled', or "none".
DispatchFrame(target, type, bubbles, origin) ==
    [kind |-> "dispatchActionAsEvent", pc |-> "check", target |-> target,
     type |-> type, bubbles |-> bubbles, origin |-> origin,
     meta |-> [orig |-> [setAttribute |-> 0, removeAttribute |-> 0],
               disabled |-> FALSE],
     forwards |-> 0, reachedRoot |-> FALSE, had |-> FALSE,
     lastSet |-> "none"]

\* target.dispatchEvent(e), or the browser dispatching a native event:
\* path[p] is the node being visited, snap the clone of its listeners of
\* the event's type, i the next of them.  fired lists the <<node, id>> of
\* the listeners whose user handler was invoked.
EventFrame(e, ls) ==
    [kind |-> "dispatchEvent", pc |-> "invoke", e |-> e,
     path |-> EventPath(e.target, e.bubbles), p |-> 1,
     snap |-> ListenersOfType(ls[e.target], e.type), i |-> 1,
     stopped |-> FALSE, fired |-> <<>>]

\* The EventMap object that entry fn was made from: map m of the EventMap[]
\* of apply-call g for the target.
MapObject(fn) ==
    [kind |-> "map", target |-> fn.target, g |-> fn.id[1], m |-> fn.id[2]]

\* A variant that calls the handler as a method of its EventMap.
ThisArg_Map(currentTarget, fn) == MapObject(fn)

\* result = handler.call(this, e): eventHandler is an ordinary function that
\* the platform calls as a listener, so its `this` is the node the listener
\* is attached to, the event's current target.
ThisArg(currentTarget, fn) == [kind |-> "node", node |-> currentTarget]

\* eventHandler(e) past its two early returns, running the user handler.
\* dispatchThrew: a call of e.dispatch by this invocation threw.
UserFrame(node, fn) ==
    [kind |-> "eventHandler", pc |-> "user", node |-> node, fn |-> fn,
     this |-> ThisArg(node, fn), dispatchThrew |-> FALSE]

(***************************************************************************)
(* Operations that start on an empty stack.                                *)
(***************************************************************************)
Idle == stack = <<>> /\ ops < MaxOps

StartOp ==
    /\ ops' = ops + 1
    /\ fuel' = MaxFuel
    /\ lastError' = Null
    /\ forwarded' = <<>>

\* case 'core:bootstrap': root = action.payload.target;
Bootstrap(n) ==
    /\ Idle
    /\ StartOp
    /\ root' = n
    /\ hist' = [hist EXCEPT ![n].wasRoot = TRUE]
    /\ UNCHANGED <<async, targetHandlers, listeners, disabled, attrOps,
                   stack, gen>>

\* case 'core:apply-target-results':
\*     action.payload.events && action.payload.events.forEach(applyEventsToTarget);
ApplyTargetResults(events) ==
    /\ Idle
    /\ StartOp
    /\ stack' = <<HandlerFrame("core:apply-target-results", events)>>
    /\ UNCHANGED <<engineVars, gen, hist>>

\* case 'engine:targets-removed': action.payload.forEach(removeTargetHandlers);
TargetsRemoved(payload) ==
    /\ Idle
    /\ StartOp
    /\ stack' = <<HandlerFrame("engine:targets-removed", payload)>>
    /\ UNCHANGED <<engineVars, gen, hist>>

\* The browser dispatches an event of its own.
NativeEvent(e) ==
    /\ Idle
    /\ StartOp
    /\ stack' = <<EventFrame(e, listeners)>>
    /\ UNCHANGED <<engineVars, gen, hist>>

\* User code calls, from a timer or a promise, the e.dispatch a handler of
\* node n was given earlier.
DeferredDispatch(n, type) ==
    /\ Idle
    /\ hist[n].dispatcher
    /\ StartOp
    /\ stack' = <<DispatchFrame(n, type, TRUE, "deferred")>>
    /\ UNCHANGED <<engineVars, gen, hist>>

\* The forEach of handler(action): the next element, or the return.
HandlerForEach ==
    /\ Running("handler", "forEach")
    /\ Top.i <= Len(Top.payload)
    /\ LET next == [Top EXCEPT !.i = @ + 1]
           item == Top.payload[Top.i]
       IN stack' = Append(SetTop(next),
                          IF Top.type = "core:apply-target-results"
                          THEN ApplyFrame(item[1], item[2])
                          ELSE RemoveFrame(item))
    /\ UNCHANGED <<engineVars, lastError, ops, fuel, forwarded, gen, hist>>

HandlerReturn ==
    /\ Running("handler", "forEach")
    /\ Top.i > Len(Top.payload)
    /\ stack' = Pop
    /\ UNCHANGED <<engineVars, lastError, ops, fuel, forwarded, gen, hist>>

(***************************************************************************)
(* applyEventsToTarget.                                                    *)
(***************************************************************************)
\* const mapEventHandlers = targetHandlers.get(target);
\* mapEventHandlers && mapEventHandlers.forEach(removeListeners, target);
\* mapEventHandlers && mapEventHandlers.clear();
\* A variant that leaves the old listeners attached.
ClearListeners_Kept(ls, th, t) == ls

ClearListeners(ls, th, t) ==
    IF WeakMapHas(th, t)
    THEN [ls EXCEPT ![t] = removeAllListeners(@, th[t])]
    ELSE ls

ClearMap(th, t) ==
    IF WeakMapHas(th, t) THEN [th EXCEPT ![t] = <<>>] ELSE th

ApplyClear ==
    /\ Running("applyEventsToTarget", "clear")
    /\ LET t == Top.target IN
       /\ listeners' = ClearListeners(listeners, targetHandlers, t)
       /\ targetHandlers' = ClearMap(targetHandlers, t)
       /\ gen' = [gen EXCEPT ![t] = @ + 1]
       /\ hist' = [hist EXCEPT
              ![t].applyCalls = @ + 1,
              ![t].first = IF hist[t].applyCalls = 0 THEN Top.results ELSE @,
              ![t].earlier = @ \union HandlersOf(hist[t].results),
              ![t].results = Top.results,
              ![t].complete = FALSE,
              ![t].threw = Null,
              ![t].removed = FALSE,
              ![t].entry = IF hist[t].removed THEN FALSE ELSE @,
              ![t].removeCount = IF hist[t].removed THEN 0 ELSE @,
              ![t].removeRuns = IF hist[t].removed THEN 0 ELSE @]
    /\ stack' = SetTop([Top EXCEPT
                           !.pc = "bind",
                           !.hadEntry = WeakMapHas(targetHandlers, Top.target)])
    /\ UNCHANGED <<root, async, disabled, attrOps, lastError, ops, fuel,
                   forwarded>>

\* The places <<m, k>> of the keys in the order
\*   [].concat(...results).forEach(applyEventMap, context)
\* and, in applyEventMap, Object.keys(map).forEach(addHandlerForEvent, this)
\* visit them: map after map, and in a map key after key.
RECURSIVE KeysFrom(_, _, _)
KeysFrom(results, m, k) ==
    IF m > Len(results) THEN <<>>
    ELSE IF k > Len(results[m]) THEN KeysFrom(results, m + 1, 1)
    ELSE <<<<m, k>>>> \o KeysFrom(results, m, k + 1)

\* A variant that visits the keys of the last map first.
KeysInOrder_LastMapFirst(results) ==
    LET keys == KeysFrom(results, 1, 1)
        IsLast(at) == at[1] = Len(results)
        NotLast(at) == at[1] # Len(results)
    IN SelectSeq(keys, IsLast) \o SelectSeq(keys, NotLast)

KeysInOrder(results) == KeysFrom(results, 1, 1)

\* A variant that keeps only the latest eventHandler of an event type.
PushHandler_Replace(th, t, event, fn) ==
    LET map == IF WeakMapHas(th, t) THEN th[t] ELSE <<>>
    IN WeakMapSet(th, t, MapSet(map, event, <<fn>>))

\* The registry after addHandlerForEvent pushed fn for event:
\*   mapEventHandlers = targetHandlers.get(target);
\*   if (!mapEventHandlers) { this.added = true; targetHandlers.set(...) }
\*   arrHandlers = mapEventHandlers.get(event);
\*   arrHandlers || mapEventHandlers.set(event, arrHandlers = []);
\*   arrHandlers.push(eventHandler);
PushHandler(th, t, event, fn) ==
    LET map == IF WeakMapHas(th, t) THEN th[t] ELSE <<>>
        arrHandlers == IF MapHas(map, event) THEN MapGet(map, event) ELSE <<>>
    IN WeakMapSet(th, t, MapSet(map, event, Append(arrHandlers, fn)))

Binding == Running("applyEventsToTarget", "bind")

\* One call of addHandlerForEvent that does not throw.
ApplyBind ==
    /\ Binding
    /\ Top.n <= Len(KeysInOrder(Top.results))
    /\ LET at == KeysInOrder(Top.results)[Top.n]
           t == Top.target
           entry == Top.results[at[1]][at[2]]
           parsed == ParseKey(entry[1])
           fn == EventHandlerFn(t, gen[t], at[1], at[2], entry[1], entry[2])
       IN /\ parsed.outcome = "ok"
          /\ targetHandlers' = PushHandler(targetHandlers, t, parsed.event, fn)
          /\ listeners' = [listeners EXCEPT
                              ![t] = addEventListener(@, parsed.event, fn)]
          /\ stack' = SetTop([Top EXCEPT
                                 !.added = @ \/ ~ WeakMapHas(targetHandlers, t),
                                 !.n = @ + 1])
          /\ hist' = [hist EXCEPT ![t].entry = TRUE]
    /\ UNCHANGED <<root, async, disabled, attrOps, lastError, ops, fuel,
                   forwarded, gen>>

\* A variant in which the exception ends the call for this target only.
ApplyThrow_NextTarget ==
    /\ Binding
    /\ Top.n <= Len(KeysInOrder(Top.results))
    /\ LET at == KeysInOrder(Top.results)[Top.n]
           parsed == ParseKey(Top.results[at[1]][at[2]][1])
       IN /\ parsed.outcome # "ok"
          /\ lastError' = parsed.outcome
          /\ hist' = [hist EXCEPT ![Top.target].threw = parsed.outcome]
    /\ stack' = Pop
    /\ UNCHANGED <<engineVars, ops, fuel, forwarded, gen>>

\* A call of addHandlerForEvent that throws: the exception leaves
\* applyEventsToTarget, both forEach loops and handler(action).
ApplyThrow ==
    /\ Binding
    /\ Top.n <= Len(KeysInOrder(Top.results))
    /\ LET at == KeysInOrder(Top.results)[Top.n]
           parsed == ParseKey(Top.results[at[1]][at[2]][1])
       IN /\ parsed.outcome # "ok"
          /\ lastError' = parsed.outcome
          /\ hist' = [hist EXCEPT ![Top.target].threw = parsed.outcome]
    /\ stack' = <<>>
    /\ UNCHANGED <<engineVars, ops, fuel, forwarded, gen>>

\* The forEach loops are through.
ApplyBound ==
    /\ Binding
    /\ Top.n > Len(KeysInOrder(Top.results))
    /\ stack' = SetTop([Top EXCEPT !.pc = "lifecycle"])
    /\ UNCHANGED <<engineVars, lastError, ops, fuel, forwarded, gen, hist>>

\* A variant that dispatches amara:apply before amara:add.
LifecycleEvents_ApplyFirst(added) ==
    IF added THEN <<s_apply, s_add>> ELSE <<s_apply>>

\* context.added && syncDispatch(context.dispatcher, {type: 'amara:add'});
\* syncDispatch(context.dispatcher, {type: 'amara:apply'});
LifecycleEvents(added) == IF added THEN <<s_add, s_apply>> ELSE <<s_apply>>

ApplyLifecycle ==
    /\ Running("applyEventsToTarget", "lifecycle")
    /\ Top.j <= Len(LifecycleEvents(Top.added))
    /\ LET type == LifecycleEvents(Top.added)[Top.j] IN
       /\ stack' = Append(SetTop([Top EXCEPT !.j = @ + 1,
                                             !.dispatched = Append(@, type)]),
                          SyncFrame(Top.target, type))
       /\ hist' = IF type = s_add
                  THEN [hist EXCEPT ![Top.target].addCount = @ + 1]
                  ELSE hist
    /\ UNCHANGED <<engineVars, lastError, ops, fuel, forwarded, gen>>

ApplyReturn ==
    /\ Running("applyEventsToTarget", "lifecycle")
    /\ Top.j > Len(LifecycleEvents(Top.added))
    /\ stack' = Pop
    /\ hist' = [hist EXCEPT ![Top.target].complete = TRUE]
    /\ UNCHANGED <<engineVars, lastError, ops, fuel, forwarded, gen>>

(***************************************************************************)
(* removeTargetHandlers and syncDispatch.                                  *)
(***************************************************************************)
\* A variant that dispatches amara:remove whether or not there is an entry.
RemoveIgnore_Dispatch ==
    /\ Running("removeTargetHandlers", "get")
    /\ ~ WeakMapHas(targetHandlers, Top.target)
    /\ stack' = Append(SetTop([Top EXCEPT !.dispatched = Append(@, s_remove)]),
                       SyncFrame(Top.target, s_remove))
    /\ hist' = [hist EXCEPT ![Top.target].removeCount = @ + 1]
    /\ UNCHANGED <<engineVars, lastError, ops, fuel, forwarded, gen>>

\* targetHandlers.get(target) is undefined: nothing to do.
RemoveIgnore ==
    /\ Running("removeTargetHandlers", "get")
    /\ ~ WeakMapHas(targetHandlers, Top.target)
    /\ stack' = Pop
    /\ hist' = [hist EXCEPT ![Top.target].removed = TRUE,
                            ![Top.target].applyCalls = 0,
                            ![Top.target].addCount = 0]
    /\ UNCHANGED <<engineVars, lastError, ops, fuel, forwarded, gen>>

\* {type: 'amara:remove'}
RemoveEvent == s_remove

\* A variant that detaches the listeners before the dispatch.
RemoveLifecycle_DetachFirst ==
    /\ Running("removeTargetHandlers", "get")
    /\ WeakMapHas(targetHandlers, Top.target)
    /\ listeners' = [listeners EXCEPT
                         ![Top.target] =
                             removeAllListeners(@, targetHandlers[Top.target])]
    /\ stack' = Append(SetTop([Top EXCEPT !.pc = "delete",
                                          !.dispatched = Append(@, s_remove)]),
                       SyncFrame(Top.target, s_remove))
    /\ hist' = [hist EXCEPT ![Top.target].removeCount = @ + 1]
    /\ UNCHANGED <<root, async, targetHandlers, disabled, attrOps, lastError,
                   ops, fuel, forwarded, gen>>

\* syncDispatch(getTargetDispatcher(target), {type: 'amara:remove'});
RemoveLifecycle ==
    /\ Running("removeTargetHandlers", "get")
    /\ WeakMapHas(targetHandlers, Top.target)
    /\ stack' = Append(SetTop([Top EXCEPT !.pc = "delete",
                                          !.dispatched = Append(@, RemoveEvent)]),
                       SyncFrame(Top.target, RemoveEvent))
    /\ hist' = [hist EXCEPT ![Top.target].removeCount = @ + 1]
    /\ UNCHANGED <<engineVars, lastError, ops, fuel, forwarded, gen>>

\* mapHandlerWrapper.forEach(removeListeners, target), after
\* targetHandlers.delete(target).
\* A variant that leaves the listeners attached.
DetachListeners_Kept(ls, mapHandlerWrapper) == ls

DetachListeners(ls, mapHandlerWrapper) ==
    removeAllListeners(ls, mapHandlerWrapper)

RemoveDelete ==
    /\ Running("removeTargetHandlers", "delete")
    /\ LET t == Top.target IN
       /\ targetHandlers' = WeakMapDelete(targetHandlers, t)
       /\ listeners' = [listeners EXCEPT
                            ![t] = DetachListeners(@, targetHandlers[t])]
       /\ hist' = [hist EXCEPT ![t].removed = TRUE,
                               ![t].applyCalls = 0,
                               ![t].addCount = 0]
    /\ stack' = Pop
    /\ UNCHANGED <<root, async, disabled, attrOps, lastError, ops, fuel,
                   forwarded, gen>>

\* async = false; dispatcher(action, {});  The empty eventInitOptions make
\* an event that does not bubble.
SyncCall ==
    /\ Running("syncDispatch", "call")
    /\ async' = FALSE
    /\ stack' = Append(SetTop([Top EXCEPT !.pc = "after"]),
                       DispatchFrame(Top.target, Top.type, FALSE, "engine"))
    /\ UNCHANGED <<root, targetHandlers, listeners, disabled, attrOps,
                   lastError, ops, fuel, forwarded, gen, hist>>

\* async = true;
SyncReturn ==
    /\ Running("syncDispatch", "after")
    /\ async' = TRUE
    /\ stack' = Pop
    /\ UNCHANGED <<root, targetHandlers, listeners, disabled, attrOps,
                   lastError, ops, fuel, forwarded, gen, hist>>

(***************************************************************************)
(* dispatchActionAsEvent with prePatchDisabledBug / postPatchDisabledBug.  *)
(***************************************************************************)
\* A call of a node's setAttribute or removeAttribute for 'disabled': op 0
\* is the native method and changes the attribute; op d is the closure
\* frame d patched in, which records the value in that frame's meta.
DisabledAfter(dis, op, n, value) ==
    IF op = 0 THEN [dis EXCEPT ![n] = value] ELSE dis

StackAfter(st, op, value) ==
    IF op = 0 THEN st ELSE [st EXCEPT ![op].meta.disabled = value]

\* if (async) throwError('Event actions must be dispatched synchronously.');
SyncGate(isAsync) == isAsync

\* The call throws.  Called from a user handler, the handler gets the
\* exception; called from an empty stack, the deferred caller gets it.
DispatchThrow ==
    /\ Running("dispatchActionAsEvent", "check")
    /\ SyncGate(async)
    /\ IF Len(stack) > 1
       THEN /\ stack' = [Pop EXCEPT ![Len(stack) - 1].dispatchThrew = TRUE]
            /\ UNCHANGED lastError
       ELSE /\ stack' = <<>>
            /\ lastError' = "synchronous"
    /\ UNCHANGED <<engineVars, ops, fuel, forwarded, gen, hist>>

\* A variant that listens at the top of the document, whatever the root.
AddProxy_AtTop(ls, r, type) ==
    [ls EXCEPT !["main"] = addEventListener(@, type, ProxyToAmaraFn)]

\* root && root.addEventListener(action.type, proxyToAmara);
AddProxy(ls, r, type) ==
    IF r = Null THEN ls
    ELSE [ls EXCEPT ![r] = addEventListener(@, type, ProxyToAmaraFn)]

\* A variant that leaves proxyToAmara attached.
RemoveProxy_Kept(ls, r, type) == ls

\* root && root.removeEventListener(action.type, proxyToAmara);
RemoveProxy(ls, r, type) ==
    IF r = Null THEN ls
    ELSE [ls EXCEPT ![r] = removeEventListener(@, type, ProxyToAmaraFn)]

CustomEvent(f) ==
    [type |-> f.type, target |-> f.target, bubbles |-> f.bubbles,
     key |-> JsUndefined, button |-> JsUndefined, origin |-> f.origin]

\* The call passes the gate: the root listener, prePatchDisabledBug, and
\* target.dispatchEvent(ce) begins.
DispatchEvent ==
    /\ Running("dispatchActionAsEvent", "check")
    /\ ~ SyncGate(async)
    /\ LET d == Len(stack)
           t == Top.target
           meta == [orig |-> attrOps[t], disabled |-> disabled[t]]
           ls == AddProxy(listeners, root, Top.type)
           frame == [Top EXCEPT !.pc = "dispatched", !.meta = meta,
                                !.reachedRoot = (t = root),
                                !.had = disabled[t]]
       IN /\ listeners' = ls
          /\ disabled' = DisabledAfter(disabled, attrOps[t].removeAttribute,
                                       t, FALSE)
          /\ attrOps' = [attrOps EXCEPT
                            ![t] = [setAttribute |-> d, removeAttribute |-> d]]
          /\ stack' = Append(
                 StackAfter(SetTop(frame), attrOps[t].removeAttribute, FALSE),
                 EventFrame(CustomEvent(Top), ls))
    /\ UNCHANGED <<root, async, targetHandlers, lastError, ops, fuel,
                   forwarded, gen, hist>>

\* dispatchEvent returned: postPatchDisabledBug, the root listener is
\* removed, return result.
DispatchReturn ==
    /\ Running("dispatchActionAsEvent", "dispatched")
    /\ LET t == Top.target
           meta == Top.meta
           op == IF meta.disabled THEN meta.orig.setAttribute
                                  ELSE meta.orig.removeAttribute
       IN /\ attrOps' = [attrOps EXCEPT ![t] = meta.orig]
          /\ disabled' = DisabledAfter(disabled, op, t, meta.disabled)
          /\ stack' = StackAfter(Pop, op, meta.disabled)
          /\ listeners' = RemoveProxy(listeners, root, Top.type)
    /\ UNCHANGED <<root, async, targetHandlers, lastError, ops, fuel,
                   forwarded, gen, hist>>

(***************************************************************************)
(* Event dispatch by the platform, eventHandler and proxyToAmara.          *)
(***************************************************************************)
CurrentNode == Top.path[Top.p]
CurrentListener == Top.snap[Top.i]

\* A listener removed since the node's list was cloned is not invoked.
Attached(l, ls) == \E j \in 1..Len(ls) : ls[j] = l

Invoking ==
    /\ Running("dispatchEvent", "invoke")
    /\ Top.i <= Len(Top.snap)

\* The frame of the dispatchActionAsEvent call that made the event being
\* dispatched by the frame at position d, or 0 for a native event.
DispatchOf(d) ==
    IF d > 1 /\ stack[d - 1].kind = "dispatchActionAsEvent" THEN d - 1 ELSE 0

\* eventHandler(e) passes both filters:
\*   async = false; e.dispatch = dispatcher; result = handler.call(this, e);
EventHandlerInvoke ==
    /\ Invoking
    /\ CurrentListener.fn.kind = "eventHandler"
    /\ Attached(CurrentListener, listeners[CurrentNode])
    /\ PassesFilters(CurrentListener.fn, Top.e)
    /\ async' = FALSE
    /\ stack' = Append(
           SetTop([Top EXCEPT !.i = @ + 1,
                      !.fired = Append(@, <<CurrentNode, CurrentListener.fn.id>>)]),
           UserFrame(CurrentNode, CurrentListener.fn))
    /\ hist' = [hist EXCEPT
           ![CurrentNode].dispatcher = TRUE,
           ![CurrentNode].removeRuns =
               IF Top.e.type = s_remove /\ Top.e.origin = "engine"
               THEN @ + 1 ELSE @]
    /\ UNCHANGED <<root, targetHandlers, listeners, disabled, attrOps,
                   lastError, ops, fuel, forwarded, gen>>

\* eventHandler(e) returns early: no delegate matches e.target, or the
\* event's key or button is none of the meta tokens.
EventHandlerFiltered ==
    /\ Invoking
    /\ CurrentListener.fn.kind = "eventHandler"
    /\ Attached(CurrentListener, listeners[CurrentNode])
    /\ ~ PassesFilters(CurrentListener.fn, Top.e)
    /\ stack' = SetTop([Top EXCEPT !.i = @ + 1])
    /\ UNCHANGED <<engineVars, lastError, ops, fuel, forwarded, gen, hist>>

\* The listener was removed after the node's listeners were cloned.
ListenerRemoved ==
    /\ Invoking
    /\ ~ Attached(CurrentListener, listeners[CurrentNode])
    /\ stack' = SetTop([Top EXCEPT !.i = @ + 1])
    /\ UNCHANGED <<engineVars, lastError, ops, fuel, forwarded, gen, hist>>

\* A variant that passes every event on.
ProxyForwards_All(type) == TRUE

\* function proxyToAmara(e) { !e.type.startsWith('amara:') && dispatch(e.detail); }
ProxyForwards(type) == ~ startsWith(type, s_amara)

ProxyToAmara ==
    /\ Invoking
    /\ CurrentListener.fn.kind = "proxyToAmara"
    /\ Attached(CurrentListener, listeners[CurrentNode])
    /\ LET d == DispatchOf(Len(stack))
           next == SetTop([Top EXCEPT !.i = @ + 1])
       IN IF ProxyForwards(Top.e.type)
          THEN /\ forwarded' = Append(forwarded, [type |-> Top.e.type,
                                                   at |-> CurrentNode])
               /\ stack' = IF d = 0 THEN next
                           ELSE [next EXCEPT ![d].forwards = @ + 1]
          ELSE /\ stack' = next
               /\ UNCHANGED forwarded
    /\ UNCHANGED <<engineVars, lastError, ops, fuel, gen, hist>>

\* The listeners of the node are through and the event goes on to the
\* parent node.
Bubble ==
    /\ Running("dispatchEvent", "invoke")
    /\ Top.i > Len(Top.snap)
    /\ Top.p < Len(Top.path)
    /\ ~ Top.stopped
    /\ LET n == Top.path[Top.p + 1]
           d == DispatchOf(Len(stack))
           next == SetTop([Top EXCEPT !.p = @ + 1, !.i = 1,
                       !.snap = ListenersOfType(listeners[n], Top.e.type)])
       IN stack' = IF d # 0 /\ n = root
                   THEN [next EXCEPT ![d].reachedRoot = TRUE]
                   ELSE next
    /\ UNCHANGED <<engineVars, lastError, ops, fuel, forwarded, gen, hist>>

\* The dispatch is over: the path is through or propagation was stopped.
DispatchEventReturn ==
    /\ Running("dispatchEvent", "invoke")
    /\ Top.i > Len(Top.snap)
    /\ Top.p = Len(Top.path) \/ Top.stopped
    /\ stack' = Pop
    /\ UNCHANGED <<engineVars, lastError, ops, fuel, forwarded, gen, hist>>

(***************************************************************************)
(* What a user handler may do while it runs.                               *)
(***************************************************************************)
InHandler == Running("eventHandler", "user")

\* e.dispatch(action): the dispatcher of the node the handler is bound on,
\* with the default eventInitOptions (bubbles: true).
UserDispatch(type) ==
    /\ InHandler
    /\ fuel > 0
    /\ fuel' = fuel - 1
    /\ stack' = Append(stack, DispatchFrame(Top.fn.target, type, TRUE, "user"))
    /\ UNCHANGED <<engineVars, lastError, ops, forwarded, gen, hist>>

\* e.stopPropagation()
UserStopPropagation ==
    /\ InHandler
    /\ fuel > 0
    /\ ~ stack[Len(stack) - 1].stopped
    /\ fuel' = fuel - 1
    /\ stack' = [stack EXCEPT ![Len(stack) - 1].stopped = TRUE]
    /\ UNCHANGED <<engineVars, lastError, ops, forwarded, gen, hist>>

\* The stack with the handler's call noted in the dispatches on node n that
\* are in progress.
CallNoted(st, n, value) ==
    [i \in 1..Len(st) |->
        IF st[i].kind = "dispatchActionAsEvent" /\ st[i].target = n
        THEN [st[i] EXCEPT !.lastSet = IF value THEN "set" ELSE "remove"]
        ELSE st[i]]

\* e.currentTarget.setAttribute('disabled', '') for value TRUE,
\* e.currentTarget.removeAttribute('disabled') for value FALSE.
UserSetDisabled(value) ==
    /\ InHandler
    /\ fuel > 0
    /\ fuel' = fuel - 1
    /\ LET op == IF value THEN attrOps[Top.node].setAttribute
                           ELSE attrOps[Top.node].removeAttribute
       IN /\ disabled' = DisabledAfter(disabled, op, Top.node, value)
          /\ stack' = CallNoted(StackAfter(stack, op, value), Top.node, value)
    /\ UNCHANGED <<root, async, targetHandlers, listeners, attrOps,
                   lastError, ops, forwarded, gen, hist>>

\* The handler returns:  async = true; return result;
UserReturn ==
    /\ InHandler
    /\ async' = TRUE
    /\ stack' = Pop
    /\ UNCHANGED <<root, targetHandlers, listeners, disabled, attrOps,
                   lastError, ops, fuel, forwarded, gen, hist>>

\* The handler throws: eventHandler is left before async = true, and the
\* platform reports the exception and goes on with the next listener.
UserThrow ==
    /\ InHandler
    /\ stack' = Pop
    /\ UNCHANGED <<engineVars, lastError, ops, fuel, forwarded, gen, hist>>

(***************************************************************************)
(* The specification.                                                      *)
(***************************************************************************)
Next ==
    \/ \E n \in RootChoices : Bootstrap(n)
    \/ \E events \in ApplyPayloads : ApplyTargetResults(events)
    \/ \E payload \in RemovedPayloads : TargetsRemoved(payload)
    \/ \E e \in NativeEvents : NativeEvent(e)
    \/ \E n \in Nodes, type \in ActionTypes : DeferredDispatch(n, type)
    \/ HandlerForEach
    \/ HandlerReturn
    \/ ApplyClear
    \/ ApplyBind
    \/ ApplyThrow
    \/ ApplyBound
    \/ ApplyLifecycle
    \/ ApplyReturn
    \/ RemoveIgnore
    \/ RemoveLifecycle
    \/ RemoveDelete
    \/ SyncCall
    \/ SyncReturn
    \/ DispatchThrow
    \/ DispatchEvent
    \/ DispatchReturn
    \/ EventHandlerInvoke
    \/ EventHandlerFiltered
    \/ ListenerRemoved
    \/ ProxyToAmara
    \/ Bubble
    \/ DispatchEventReturn
    \/ \E type \in ActionTypes : UserDispatch(type)
    \/ UserStopPropagation
    \/ UserReturn
    \/ UserThrow

Spec == Init /\ [][Next]_vars

\* The engine without a root, with the inputs that exercise the key grammar
\* and the filters, and with handlers that dispatch actions and return.
InitKeys == Init /\ \A n \in Nodes : ~ disabled[n]

NextKeys ==
    \/ \E events \in KeyPayloads : ApplyTargetResults(events)
    \/ \E e \in KeyEvents : NativeEvent(e)
    \/ HandlerForEach
    \/ HandlerReturn
    \/ ApplyClear
    \/ ApplyBind
    \/ ApplyThrow
    \/ ApplyBound
    \/ ApplyLifecycle
    \/ ApplyReturn
    \/ SyncCall
    \/ SyncReturn
    \/ DispatchThrow
    \/ DispatchEvent
    \/ DispatchReturn
    \/ EventHandlerInvoke
    \/ EventHandlerFiltered
    \/ Bubble
    \/ DispatchEventReturn
    \/ \E type \in KeyActionTypes : UserDispatch(type)
    \/ UserReturn

SpecKeys == InitKeys /\ [][NextKeys]_vars

\* The engine with a root that the host names and renames, with the inputs
\* that exercise the root listener.
NextRoot ==
    \/ \E n \in RootChoices : Bootstrap(n)
    \/ \E events \in RootPayloads : ApplyTargetResults(events)
    \/ \E e \in NativeEvents : NativeEvent(e)
    \/ \E n \in RootChoices, type \in RootActionTypes : DeferredDispatch(n, type)
    \/ HandlerForEach
    \/ HandlerReturn
    \/ ApplyClear
    \/ ApplyBind
    \/ ApplyBound
    \/ ApplyLifecycle
    \/ ApplyReturn
    \/ SyncCall
    \/ SyncReturn
    \/ DispatchThrow
    \/ DispatchEvent
    \/ DispatchReturn
    \/ EventHandlerInvoke
    \/ EventHandlerFiltered
    \/ ProxyToAmara
    \/ Bubble
    \/ DispatchEventReturn
    \/ \E type \in RootActionTypes : UserDispatch(type)
    \/ UserStopPropagation
    \/ UserReturn
    \/ UserThrow

SpecRoot == InitKeys /\ [][NextRoot]_vars

\* The engine with targets that have or lack the attribute 'disabled', and
\* with handlers that set and remove it and dispatch actions.
DisabledPayloads ==
    { << <<"div", <<MapClickX>> >> >>,
      << <<"main", <<MapClicks>> >>, <<"div", <<MapLife>> >> >> }

NextDisabled ==
    \/ \E events \in DisabledPayloads : ApplyTargetResults(events)
    \/ \E e \in NativeEvents : NativeEvent(e)
    \/ HandlerForEach
    \/ HandlerReturn
    \/ ApplyClear
    \/ ApplyBind
    \/ ApplyBound
    \/ ApplyLifecycle
    \/ ApplyReturn
    \/ SyncCall
    \/ SyncReturn
    \/ DispatchThrow
    \/ DispatchEvent
    \/ DispatchReturn
    \/ EventHandlerInvoke
    \/ EventHandlerFiltered
    \/ Bubble
    \/ DispatchEventReturn
    \/ \E type \in ActionTypes : UserDispatch(type)
    \/ \E value \in BOOLEAN : UserSetDisabled(value)
    \/ UserReturn
    \/ UserThrow

SpecDisabled == Init /\ [][NextDisabled]_vars

(***************************************************************************)
(* What the claims speak about.                                            *)
(***************************************************************************)
Frames(kind) == { i \in 1..Len(stack) : stack[i].kind = kind }

\* The user handlers running: the frame at position i runs a handler for
\* the event the frame at i - 1 dispatches.
UserFrames == Frames("eventHandler")
EventOf(i) == stack[i - 1].e

\* A native event is being dispatched to node n.
NativeEventOn(n) ==
    /\ stack # <<>>
    /\ stack[1].kind = "dispatchEvent"
    /\ stack[1].e.target = n

\* The <<m, k>> places of the entries of results, map after map and key
\* after key, that are bound to events of e's type and that e passes:
\* written from the EventMap[] alone.
RECURSIVE RegisteredFrom(_, _, _, _, _)
RegisteredFrom(results, m, k, n, e) ==
    IF m > Len(results) THEN <<>>
    ELSE IF k > Len(results[m]) THEN RegisteredFrom(results, m + 1, 1, n, e)
    ELSE LET key == results[m][k][1]
             fn == EventHandlerFn(n, 0, m, k, key, results[m][k][2])
             rest == RegisteredFrom(results, m, k + 1, n, e)
         IN IF fn.event = e.type /\ PassesFilters(fn, e)
            THEN <<<<m, k>>>> \o rest
            ELSE rest

Registered(n, e) ==
    IF hist[n].removed THEN <<>>
    ELSE RegisteredFrom(hist[n].results, 1, 1, n, e)

\* The <<m, k>> places of the listeners of node n whose handlers the
\* dispatch frame f has invoked, in the order of their invocation.
FiredAt(f, n) ==
    LET At(x) == x[1] = n
        hits == SelectSeq(f.fired, At)
    IN [i \in 1..Len(hits) |-> <<hits[i][2][2], hits[i][2][3]>>]

IsPrefix(a, b) == Len(a) <= Len(b) /\ a = SubSeq(b, 1, Len(a))

\* The dispatch frame f is through with the listeners of node n.
Visited(f, n) ==
    \E q \in 1..Len(f.path) :
        /\ f.path[q] = n
        /\ q < f.p \/ (q = f.p /\ f.i > Len(f.snap))

\* Every key of the latest apply-call for n has been bound.
AllBound(n) ==
    \/ hist[n].complete
    \/ \E i \in Frames("applyEventsToTarget") :
           stack[i].target = n /\ stack[i].pc = "lifecycle"

(***************************************************************************)
(* C1: after any sequence of apply-calls for a target, an event invokes    *)
(* only handlers the latest apply-call for the target supplied, through    *)
(* listeners that call created: a handler of an earlier call that the      *)
(* latest call lacks is never invoked.                                     *)
(***************************************************************************)
C1_OnlyLatestHandlers ==
    \A i \in UserFrames :
        LET fn == stack[i].fn IN
        /\ fn.id[1] = gen[fn.target]
        /\ fn.handler \in HandlersOf(hist[fn.target].results)

\* A native event on the div invokes a handler after a second apply-call
\* that lacks a handler an earlier call had bound.
C1_Witness ==
    /\ NativeEventOn("div")
    /\ \E i \in UserFrames : stack[i].node = "div"
    /\ gen["div"] >= 2
    /\ hist["div"].earlier \ HandlersOf(hist["div"].results) # {}

(***************************************************************************)
(* C2: an event on a target whose apply-call bound the maps [M1, M2, ...]  *)
(* invokes the handlers registered for its type that it passes, in the     *)
(* order of registration (M1's keys in key order, then M2's, ...): what    *)
(* has been invoked is always a prefix of that list, and the whole list    *)
(* once the node's listeners are through.                                  *)
(***************************************************************************)
C2_RegistrationOrder ==
    \A i \in Frames("dispatchEvent") : \A n \in Nodes :
        (AllBound(n) \/ hist[n].removed) =>
            LET fired == FiredAt(stack[i], n)
                registered == Registered(n, stack[i].e)
            IN \/ fired = <<>> /\ ~ Visited(stack[i], n)
               \/ /\ IsPrefix(fired, registered)
                  /\ (AllBound(n) /\ Visited(stack[i], n)) => fired = registered

\* A click on the div has run the three click handlers of two maps.
C2_Witness ==
    /\ NativeEventOn("div")
    /\ Visited(stack[1], "div")
    /\ hist["div"].results = <<MapClickX, MapClicks>>
    /\ FiredAt(stack[1], "div") = << <<1, 1>>, <<2, 1>>, <<2, 2>> >>

(***************************************************************************)
(* C3: whenever one or more apply-calls have been made for a target with   *)
(* no targets-removed for it in between, and the engine is at rest, the    *)
(* engine has dispatched amara:add on the target exactly once, whatever    *)
(* the calls' event maps held.                                             *)
(***************************************************************************)
C3_AddExactlyOnce ==
    \A n \in Nodes :
        (stack = <<>> /\ hist[n].applyCalls >= 1) => hist[n].addCount = 1

(***************************************************************************)
(* C4: an amara:add event of the engine invokes no handler that the first  *)
(* apply-call for the target did not supply: a handler first supplied by   *)
(* a later apply-call is never invoked for it.                             *)
(***************************************************************************)
C4_LateAddHandlerNeverRuns ==
    \A i \in UserFrames :
        (EventOf(i).type = s_add /\ EventOf(i).origin = "engine")
            => stack[i].fn.handler \in HandlersOf(hist[stack[i].node].first)

(***************************************************************************)
(* C5: an apply-call that completes has dispatched amara:apply exactly     *)
(* once, after amara:add when that fires in the call; and while either is  *)
(* being dispatched the target's listeners are those of all keys of this   *)
(* call, in order, and none of an earlier call.                            *)
(***************************************************************************)
\* The ids of the eventHandler listeners attached to node n, in order.
AttachedIds(n) ==
    LET IsHandler(l) == l.fn.kind = "eventHandler"
        hs == SelectSeq(listeners[n], IsHandler)
    IN [i \in 1..Len(hs) |-> hs[i].fn.id]

\* The ids apply-call g gives the listeners of the keys of results.
RECURSIVE IdsFrom(_, _, _, _)
IdsFrom(results, g, m, k) ==
    IF m > Len(results) THEN <<>>
    ELSE IF k > Len(results[m]) THEN IdsFrom(results, g, m + 1, 1)
    ELSE <<<<g, m, k>>>> \o IdsFrom(results, g, m, k + 1)

C5_ApplyLifecycleOrder ==
    \A i \in Frames("applyEventsToTarget") :
        LET f == stack[i] IN
        /\ f.dispatched # <<>>
              => AttachedIds(f.target) = IdsFrom(f.results, gen[f.target], 1, 1)
        /\ (f.pc = "lifecycle" /\ f.j > Len(LifecycleEvents(f.added)))
              => f.dispatched \in {<<s_apply>>, <<s_add, s_apply>>}
        /\ IsPrefix(f.dispatched, <<s_add, s_apply>>)
              \/ f.dispatched = <<s_apply>>

\* A second apply-call for the div, which replaces three listeners by two,
\* is about to return after amara:apply alone.
C5_Witness ==
    /\ Running("applyEventsToTarget", "lifecycle")
    /\ Top.j > Len(LifecycleEvents(Top.added))
    /\ Top.results = <<MapClicks>>
    /\ gen[Top.target] = 2
    /\ hist[Top.target].earlier = {"h1", "h2", "h3"}
    /\ Top.dispatched = <<s_apply>>

(***************************************************************************)
(* C6: the amara:remove handlers of a target run exactly once when the     *)
(* target is reported removed while it has a registry entry, however often *)
(* it is reported, and no apply-call runs them.                            *)
(***************************************************************************)
\* The number of entries of results bound to amara:remove.
RECURSIVE RemoveKeys(_, _, _)
RemoveKeys(results, m, k) ==
    IF m > Len(results) THEN 0
    ELSE IF k > Len(results[m]) THEN RemoveKeys(results, m + 1, 1)
    ELSE (IF ParseKey(results[m][k][1]).event = s_remove THEN 1 ELSE 0)
         + RemoveKeys(results, m, k + 1)

\* removeTargetHandlers(n) is running.
Removing(n) ==
    \E i \in Frames("removeTargetHandlers") : stack[i].target = n

C6_RemoveExactlyOnce ==
    /\ \A i \in UserFrames :
          (EventOf(i).type = s_remove /\ EventOf(i).origin = "engine")
              => Removing(stack[i].node)
    /\ \A i \in Frames("syncDispatch") :
          stack[i].type = s_remove
              => stack[i - 1].kind = "removeTargetHandlers"
    /\ \A n \in Nodes :
          /\ hist[n].removeCount <= 1
          /\ (~ hist[n].removed /\ ~ Removing(n))
                => hist[n].removeCount = 0 /\ hist[n].removeRuns = 0
          /\ hist[n].removed
                => hist[n].removeCount = (IF hist[n].entry THEN 1 ELSE 0)
          /\ hist[n].removed /\ hist[n].complete
                => hist[n].removeRuns = RemoveKeys(hist[n].results, 1, 1)

\* The div was named twice in one targets-removed payload, and its
\* amara:remove handler has run once.
C6_Witness ==
    /\ Running("handler", "forEach")
    /\ Top.payload = <<"div", "div">>
    /\ Top.i > Len(Top.payload)
    /\ hist["div"].complete
    /\ hist["div"].removed
    /\ hist["div"].removeCount = 1
    /\ hist["div"].removeRuns = 1

(***************************************************************************)
(* C7: once a targets-removed action has named a target, and until the     *)
(* next apply-call for it, the target has no registry entry and no handler *)
(* bound on it is invoked.                                                 *)
(***************************************************************************)
C7_NothingAfterRemoval ==
    \A n \in Nodes :
        hist[n].removed =>
            /\ ~ WeakMapHas(targetHandlers, n)
            /\ \A i \in UserFrames : stack[i].node # n

\* A click on the div, which had click handlers, has passed the div after
\* the div was removed.
C7_Witness ==
    /\ NativeEventOn("div")
    /\ stack[1].e.type = s_click
    /\ Visited(stack[1], "div")
    /\ hist["div"].removed
    /\ hist["div"].complete
    /\ hist["div"].results = <<MapClickX, MapClicks>>

(***************************************************************************)
(* C8: a deferred call of a target's dispatch operation, made from an      *)
(* empty stack, never passes the gate: it throws, and so fires no event,   *)
(* adds no root listener and leaves the attributes alone.                  *)
(***************************************************************************)
C8_DeferredDispatchThrows ==
    \A i \in Frames("dispatchActionAsEvent") :
        stack[i].origin = "deferred" => stack[i].pc = "check"

(***************************************************************************)
(* C9: no call of e.dispatch made by a running handler throws the          *)
(* synchronous-dispatch error.                                             *)
(***************************************************************************)
C9_SynchronousDispatchSucceeds ==
    \A i \in UserFrames : ~ stack[i].dispatchThrew

(***************************************************************************)
(* C10: when a handler's e.dispatch returns, an action whose event was     *)
(* delivered to the bootstrapped root has been passed to the host          *)
(* dispatcher exactly once.                                                *)
(***************************************************************************)
C10_ForwardedOnce ==
    \A i \in Frames("dispatchActionAsEvent") :
        (/\ i = Len(stack)
         /\ stack[i].pc = "dispatched"
         /\ stack[i].origin = "user"
         /\ stack[i].reachedRoot
         /\ ~ startsWith(stack[i].type, s_amara))
            => stack[i].forwards = 1

(***************************************************************************)
(* C11: the host dispatcher is invoked only by the listener at the root    *)
(* recorded last, for an event that has arrived there: a dispatched action *)
(* whose event has not reached the root (a handler stopped it below the    *)
(* root, or no root was bootstrapped) is not passed on, and no node that   *)
(* is not the current root carries the forwarding listener.                *)
(***************************************************************************)
\* The event that the dispatchActionAsEvent frame at position d made has
\* been delivered to the root.
ArrivedAtRoot(d) ==
    /\ root # Null
    /\ IF d < Len(stack)
       THEN \E q \in 1..stack[d + 1].p : stack[d + 1].path[q] = root
       ELSE stack[d].reachedRoot

C11_ForwardedOnlyAtRoot ==
    /\ \A n \in Nodes :
          (\E j \in 1..Len(listeners[n]) :
               listeners[n][j].fn.kind = "proxyToAmara") => n = root
    /\ \A k \in 1..Len(forwarded) : forwarded[k].at = root
    /\ \A d \in Frames("dispatchActionAsEvent") :
          stack[d].forwards > 0 => ArrivedAtRoot(d)
    /\ root = Null => forwarded = <<>>

\* After bootstrap actions for main and for the div, an action dispatched
\* on the div has bubbled past main and was passed on once, at the div.
C11_Witness ==
    /\ root = "div"
    /\ hist["main"].wasRoot
    /\ Running("dispatchEvent", "invoke")
    /\ Top.e.type = s_x
    /\ Top.path = <<"div", "main">>
    /\ Top.p = 2
    /\ Top.i > Len(Top.snap)
    /\ forwarded = <<[type |-> s_x, at |-> "div"]>>

(***************************************************************************)
(* C12: a lifecycle event (amara:add, amara:apply, amara:remove) that the  *)
(* engine dispatches for a target invokes only handlers bound on that      *)
(* target, none bound on an ancestor; and no action whose type starts with *)
(* 'amara:' is passed to the host dispatcher, whether the engine or a      *)
(* handler dispatched it and also when the target is the root.             *)
(***************************************************************************)
C12_LifecycleStaysOnTarget ==
    /\ \A i \in UserFrames :
          (EventOf(i).origin = "engine" /\ startsWith(EventOf(i).type, s_amara))
              => /\ stack[i].node = EventOf(i).target
                 /\ stack[i].fn.target = EventOf(i).target
    /\ \A i \in Frames("dispatchEvent") :
          (stack[i].e.origin = "engine" /\ startsWith(stack[i].e.type, s_amara))
              => \A k \in 1..Len(stack[i].fired) :
                     stack[i].fired[k][1] = stack[i].e.target
    /\ \A k \in 1..Len(forwarded) : ~ startsWith(forwarded[k].type, s_amara)
    /\ \A d \in Frames("dispatchActionAsEvent") :
          startsWith(stack[d].type, s_amara) => stack[d].forwards = 0

\* The div, which is the root, has received the engine's amara:apply, its
\* handler has run and the root's listeners are through, while main, the
\* div's parent, has an amara:apply handler attached.
C12_Witness ==
    /\ root = "div"
    /\ Running("dispatchEvent", "invoke")
    /\ Top.e.type = s_apply
    /\ Top.e.origin = "engine"
    /\ Top.e.target = "div"
    /\ Top.i > Len(Top.snap)
    /\ Top.fired # <<>>
    /\ \E j \in 1..Len(Top.snap) : Top.snap[j].fn.kind = "proxyToAmara"
    /\ \E j \in 1..Len(listeners["main"]) :
           listeners["main"][j].type = s_apply

(***************************************************************************)
(* C13: an apply-call that holds a key whose event type starts with        *)
(* 'amara:' (in any letter case) and that names a delegation selector      *)
(* throws the delegation error during that call, and no listener is ever   *)
(* attached for such a key.                                                *)
(***************************************************************************)
\* The keys of the inputs that join a lifecycle event type and a selector.
DelegatedLifecycleKeys == { Keys.addDiv, Keys.AmaraAddDiv }

HasDelegatedLifecycleKey(results) ==
    \E m \in 1..Len(results) : \E k \in 1..Len(results[m]) :
        results[m][k][1] \in DelegatedLifecycleKeys

\* applyEventsToTarget(results, n) is running.
Applying(n) ==
    \E i \in Frames("applyEventsToTarget") : stack[i].target = n

C13_DelegatedLifecycleKeyThrows ==
    /\ \A n \in Nodes : \A j \in 1..Len(listeners[n]) :
          listeners[n][j].fn.kind = "eventHandler"
              => listeners[n][j].fn.key \notin DelegatedLifecycleKeys
    /\ \A n \in Nodes :
          (/\ gen[n] > 0
           /\ HasDelegatedLifecycleKey(hist[n].results)
           /\ ~ Applying(n))
              => hist[n].threw = "delegation" /\ ~ hist[n].complete
    /\ \A i \in Frames("applyEventsToTarget") :
          HasDelegatedLifecycleKey(stack[i].results) => stack[i].pc # "lifecycle"

\* The apply-call for the div with {'x', 'Amara:Add div', 'click'} has
\* thrown after it bound the first key.
C13_Witness ==
    /\ stack = <<>>
    /\ hist["div"].results = <<MapBadUpper>>
    /\ hist["div"].threw = "delegation"
    /\ lastError = "delegation"
    /\ Len(listeners["div"]) = 1

(***************************************************************************)
(* What the filter claims speak about: the listeners of the node an event  *)
(* is visiting that the dispatch is through with, and whether each one's   *)
(* user handler was invoked.                                               *)
(***************************************************************************)
Decided(f) == { j \in 1..Len(f.snap) : j < f.i /\ f.snap[j].fn.kind = "eventHandler" }

Invoked(f, j) ==
    \E k \in 1..Len(f.fired) : f.fired[k] = <<f.path[f.p], f.snap[j].fn.id>>

KeyboardTypes == { s_keydown, s_keyup, s_keypress }
MouseTypes == { s_mousedown, s_mouseup }

\* The live value of the comparison field, stringified and lower-cased.
LiveLower(e) ==
    toLowerCase(String(IF e.type \in KeyboardTypes THEN e.key ELSE e.button))

\* The same with the browser fixup: 'del' stands for 'delete'.
LiveFixed(e) == IF LiveLower(e) = s_del THEN s_delete ELSE LiveLower(e)

(***************************************************************************)
(* C14, as stated: for a keyboard or mouse event, a handler bound without  *)
(* meta tokens is invoked whatever the value of the comparison field, and  *)
(* a handler bound with meta tokens is invoked iff the live value (key or  *)
(* button), stringified and lower-cased, is one of its tokens.             *)
(***************************************************************************)
C14_MetaFilterAsStated ==
    \A i \in Frames("dispatchEvent") :
        LET f == stack[i] IN
        f.e.type \in KeyboardTypes \union MouseTypes =>
            \A j \in Decided(f) :
                f.snap[j].fn.delegates = <<>> =>
                    (Invoked(f, j) <=>
                        \/ f.snap[j].fn.meta = <<>>
                        \/ Includes(f.snap[j].fn.meta, LiveLower(f.e)))

(***************************************************************************)
(* C14, amended: the same, with the live value, stringified and            *)
(* lower-cased, passed through the fixup 'del' -> 'delete' before it is    *)
(* compared with the tokens.                                               *)
(***************************************************************************)
C14_MetaFilter ==
    \A i \in Frames("dispatchEvent") :
        LET f == stack[i] IN
        f.e.type \in KeyboardTypes \union MouseTypes =>
            \A j \in Decided(f) :
                f.snap[j].fn.delegates = <<>> =>
                    (Invoked(f, j) <=>
                        \/ f.snap[j].fn.meta = <<>>
                        \/ Includes(f.snap[j].fn.meta, LiveFixed(f.e)))

\* A keydown with the key 'Del' on the div, bound with 'keydown',
\* 'keydown.Enter.space', 'keydown.delete' and 'keydown.del', has invoked
\* the first and the third handler.
C14_Witness ==
    /\ NativeEventOn("div")
    /\ stack[1].e.type = s_keydown
    /\ stack[1].e.key = JsString(s_Del)
    /\ Visited(stack[1], "div")
    /\ hist["div"].results = <<MapKeyboard>>
    /\ FiredAt(stack[1], "div") = << <<1, 1>>, <<1, 3>> >>

(***************************************************************************)
(* C15: a handler bound as 'mousedown.left' is invoked iff the live button *)
(* is 0, as '.middle' or '.wheel' iff it is 1, as '.right' iff it is 2,    *)
(* as 'keydown.space' iff the live key is the space character; any other   *)
(* token stands for itself, lower-cased: 'mousedown.2' is invoked iff the  *)
(* button is 2 and 'keydown.Enter.space' iff the key is 'Enter' or the     *)
(* space character.                                                        *)
(***************************************************************************)
FriendlyKeys ==
    { Keys.mousedownLeft, Keys.mousedownMiddle, Keys.mousedownWheel, Keys.mousedownRight,
      Keys.mousedown2, Keys.keydownSpace, Keys.keydownEnterSpace }

\* The live values each of these keys stands for.
LiveValuesOf(key) ==
    CASE key = Keys.mousedownLeft -> { JsNumber(0) }
      [] key = Keys.mousedownMiddle -> { JsNumber(1) }
      [] key = Keys.mousedownWheel -> { JsNumber(1) }
      [] key = Keys.mousedownRight -> { JsNumber(2) }
      [] key = Keys.mousedown2 -> { JsNumber(2) }
      [] key = Keys.keydownSpace -> { JsString(s_space_char) }
      [] key = Keys.keydownEnterSpace -> { JsString(s_Enter), JsString(s_space_char) }

C15_FriendlyNames ==
    \A i \in Frames("dispatchEvent") :
        LET f == stack[i] IN
        \A j \in Decided(f) :
            f.snap[j].fn.key \in FriendlyKeys =>
                (Invoked(f, j) <=>
                    (IF f.e.type = s_mousedown THEN f.e.button ELSE f.e.key)
                        \in LiveValuesOf(f.snap[j].fn.key))

\* A mousedown with the middle button on the div, bound with the six mouse
\* keys, has invoked the handlers of '.middle', '.wheel' and 'mousedown'.
C15_Witness ==
    /\ NativeEventOn("div")
    /\ stack[1].e.type = s_mousedown
    /\ stack[1].e.button = JsNumber(1)
    /\ Visited(stack[1], "div")
    /\ hist["div"].results = <<MapMouse>>
    /\ FiredAt(stack[1], "div") = << <<1, 2>>, <<1, 3>>, <<1, 6>> >>

\* A keydown with the space character has invoked the handlers of 'keydown',
\* 'keydown.Enter.space' and 'keydown.space'.
C15_WitnessSpace ==
    /\ NativeEventOn("div")
    /\ stack[1].e.key = JsString(s_space_char)
    /\ Visited(stack[1], "div")
    /\ hist["div"].results = <<MapKeyboard>>
    /\ FiredAt(stack[1], "div") = << <<1, 1>>, <<1, 2>>, <<1, 5>> >>

(***************************************************************************)
(* C16: a handler bound without selectors is invoked for every event of    *)
(* its type that reaches its target; a handler bound with selectors is     *)
(* invoked iff the original target of the event matches one of them,       *)
(* whatever node the handler is bound on and whatever nodes the event      *)
(* bubbled through.                                                        *)
(***************************************************************************)
ClickKeys == { s_click, Keys.clickStar, Keys.clickDiv, Keys.clickMain, Keys.clickMainDiv }

\* The original targets each of these keys accepts.
TargetsOf(key) ==
    CASE key = s_click -> Nodes
      [] key = Keys.clickStar -> Nodes
      [] key = Keys.clickDiv -> { "div" }
      [] key = Keys.clickMain -> { "main" }
      [] key = Keys.clickMainDiv -> { "main", "div" }

C16_Delegation ==
    \A i \in Frames("dispatchEvent") :
        LET f == stack[i] IN
        \A j \in Decided(f) :
            f.snap[j].fn.key \in ClickKeys =>
                (Invoked(f, j) <=> f.e.target \in TargetsOf(f.snap[j].fn.key))

\* A click on the span has bubbled through the div to main, bound with
\* 'click div', 'click main', 'click main , div' and 'click': only the
\* handler without selectors was invoked.
C16_Witness ==
    /\ NativeEventOn("span")
    /\ stack[1].e.type = s_click
    /\ Visited(stack[1], "main")
    /\ hist["main"].results = <<MapDelegated>>
    /\ FiredAt(stack[1], "main") = << <<1, 4>> >>

\* A click on the div has invoked, on main, the handlers of 'click div',
\* 'click main , div' and 'click'.
C16_WitnessDiv ==
    /\ NativeEventOn("div")
    /\ stack[1].e.type = s_click
    /\ Visited(stack[1], "main")
    /\ hist["main"].results = <<MapDelegated>>
    /\ FiredAt(stack[1], "main") = << <<1, 1>>, <<1, 3>>, <<1, 4>> >>

(***************************************************************************)
(* C17: when the latest apply-call for a node supplied the handler h n     *)
(* times for clicks (under 'click' or 'click *', in one or several maps),  *)
(* one click that reaches the node invokes h exactly n times there.        *)
(***************************************************************************)
AnyClickKeys == { s_click, Keys.clickStar }

\* The places <<m, k>> of results that supply h for every click.
Supplied(results, h) ==
    UNION { { <<m, k>> : k \in { x \in 1..Len(results[m]) :
                                  /\ results[m][x][1] \in AnyClickKeys
                                  /\ results[m][x][2] = h } } :
            m \in 1..Len(results) }

\* The invocations, during f, of listeners of node n that call h.
Invocations(f, n, h) ==
    { k \in 1..Len(f.fired) :
        /\ f.fired[k][1] = n
        /\ hist[n].results[f.fired[k][2][2]][f.fired[k][2][3]][1] \in AnyClickKeys
        /\ hist[n].results[f.fired[k][2][2]][f.fired[k][2][3]][2] = h }

UserHandlers == { "h1", "h2", "h3", "h4" }

C18_ThisIsTheMap ==
    \A i \in UserFrames : stack[i].this = MapObject(stack[i].fn)

(***************************************************************************)
(* C18, amended: every invocation of a user handler is made with `this`    *)
(* bound to the node the handler is bound on, which is the node the event  *)
(* is visiting, and not to the EventMap object or to the event's target.   *)
(***************************************************************************)
C18_ThisIsTheNode ==
    \A i \in UserFrames :
        /\ stack[i].this.kind = "node"
        /\ stack[i].this.node = stack[i].fn.target
        /\ stack[i].this.node = stack[i - 1].path[stack[i - 1].p]

\* A click on the div has bubbled to main, where the handler bound as
\* 'click div' runs with `this` being main.
C18_Witness ==
    /\ NativeEventOn("div")
    /\ Len(stack) = 2
    /\ stack[2].kind = "eventHandler"
    /\ stack[2].fn.key = Keys.clickDiv
    /\ stack[2].this = [kind |-> "node", node |-> "main"]

(***************************************************************************)
(* C19: when a handler calls e.dispatch(action), the event that is         *)
(* dispatched on the handler's node invokes every handler bound there      *)
(* under the key equal to action.type and no handler bound under another   *)
(* key, whatever the letters of the type.                                  *)
(***************************************************************************)
C19_DispatchReachesHandlers ==
    \A i \in Frames("dispatchEvent") :
        LET f == stack[i]
            t == f.e.target
        IN (f.e.origin = "user" /\ Visited(f, t) /\ hist[t].complete) =>
            \A m \in 1..Len(hist[t].results) :
                \A k \in 1..Len(hist[t].results[m]) :
                    (hist[t].results[m][k][1] = f.e.type) <=>
                        (\E x \in 1..Len(f.fired) :
                            /\ f.fired[x][1] = t
                            /\ f.fired[x][2][2] = m
                            /\ f.fired[x][2][3] = k)

(***************************************************************************)
(* C20: whenever no eventHandler is running a user handler and no          *)
(* lifecycle dispatch (syncDispatch) is in progress, the gate rejects:     *)
(* async is true, however the last handler invocation ended.               *)
(***************************************************************************)
C20_GateRestored ==
    (Frames("eventHandler") = {} /\ Frames("syncDispatch") = {}) =>
        async = TRUE

(***************************************************************************)
(* C21: when a call of dispatchActionAsEvent for target T returns and no   *)
(* handler has called T's setAttribute or removeAttribute for 'disabled'   *)
(* during it, T has the attribute 'disabled' iff it had it when the call   *)
(* began; for lifecycle dispatches and for dispatches nested in a dispatch *)
(* on the same target alike.                                               *)
(***************************************************************************)
Returning == Running("dispatchActionAsEvent", "dispatched")

C21_DisabledTransparent ==
    [][(Returning /\ Top.lastSet = "none") =>
           disabled'[Top.target] = Top.had]_vars

(***************************************************************************)
(* C22: while a dispatch on T is in progress T lacks the attribute         *)
(* 'disabled'; a handler's set or remove of 'disabled' on T during the     *)
(* dispatch is recorded and not applied; and when the outermost dispatch   *)
(* on T returns, T's setAttribute and removeAttribute are the native ones  *)
(* and T is disabled iff the last such call of a handler was a set.        *)
(***************************************************************************)
InProgress(i) ==
    stack[i].kind = "dispatchActionAsEvent" /\ stack[i].pc = "dispatched"

Outermost(i) ==
    \A j \in 1..(i - 1) : ~ (InProgress(j) /\ stack[j].target = stack[i].target)

NativeOps == [setAttribute |-> 0, removeAttribute |-> 0]

RecordedNotApplied ==
    \A value \in BOOLEAN :
        (UserSetDisabled(value) /\ attrOps[Top.node] # NativeOps) =>
            disabled' = disabled

RestoredAtReturn ==
    (Returning /\ Outermost(Len(stack))) =>
        /\ attrOps'[Top.target] = NativeOps
        /\ (Top.lastSet # "none" =>
                disabled'[Top.target] = (Top.lastSet = "set"))

C22_DisabledRecorded ==
    /\ [](\A i \in 1..Len(stack) : InProgress(i) => ~ disabled[stack[i].target])
    /\ [][RecordedNotApplied /\ RestoredAtReturn]_vars

(***************************************************************************)
(* C23: every listener the engine attaches is attached under the event     *)
(* type that is the head of its key's event token (the text before the     *)
(* first '.'), trimmed and lower-cased; the friendly names are for meta    *)
(* tokens, so the key 'wheel' is attached under 'wheel'.                   *)
(***************************************************************************)
HeadKeys ==
    { s_wheel, Keys.Click, s_Go, s_ab, Keys.mousedownLeft,
      Keys.keydownEnterSpace, Keys.clickMainDiv }

\* The head of each of these keys, lower-cased.
HeadOf(key) ==
    CASE key = s_wheel -> s_wheel
      [] key = Keys.Click -> s_click
      [] key = s_Go -> <<"g","o">>
      [] key = s_ab -> <<"a">>
      [] key = Keys.mousedownLeft -> s_mousedown
      [] key = Keys.keydownEnterSpace -> s_keydown
      [] key = Keys.clickMainDiv -> s_click

C23_HeadIsEventType ==
    \A n \in Nodes : \A j \in 1..Len(listeners[n]) :
        (/\ listeners[n][j].fn.kind = "eventHandler"
         /\ listeners[n][j].fn.key \in HeadKeys) =>
            listeners[n][j].type = HeadOf(listeners[n][j].fn.key)

(***************************************************************************)
(* C24: from the moment removeTargetHandlers dispatches amara:remove on a  *)
(* target until that dispatch has returned, the target's registry entry    *)
(* exists and the listeners of its latest apply-call are all attached; the *)
(* amara:remove handlers run within that time only.                        *)
(***************************************************************************)
C24_RemoveBeforeDetach ==
    /\ \A i \in Frames("removeTargetHandlers") :
          LET t == stack[i].target IN
          stack[i].pc = "delete" =>
              /\ WeakMapHas(targetHandlers, t)
              /\ hist[t].complete =>
                    AttachedIds(t) = IdsFrom(hist[t].results, gen[t], 1, 1)
    /\ \A i \in UserFrames :
          (EventOf(i).type = s_remove /\ EventOf(i).origin = "engine") =>
              \E r \in Frames("removeTargetHandlers") :
                  /\ r < i
                  /\ stack[r].target = stack[i].node
                  /\ stack[r].pc = "delete"

\* The amara:remove handler of the div runs with the three listeners of the
\* div's map still attached and the registry entry in place.
C24_Witness ==
    /\ \E i \in UserFrames :
          /\ EventOf(i).type = s_remove
          /\ EventOf(i).origin = "engine"
          /\ stack[i].node = "div"
    /\ hist["div"].results = <<MapLife>>
    /\ hist["div"].complete
    /\ WeakMapHas(targetHandlers, "div")
    /\ Len(AttachedIds("div")) = 3

(***************************************************************************)
(* C25: when an apply-call for a target throws the delegation error at a   *)
(* key, the target is left with the listeners of exactly the keys of that  *)
(* call that come before the offending key (none of an earlier call), the  *)
(* call dispatches neither amara:add nor amara:apply, and the targets that *)
(* follow in the same action are not processed.                            *)
(***************************************************************************)
\* The ids apply-call g gives the keys of results that come before the
\* first key that joins a lifecycle type and a selector.
IdsBeforeOffending(results, g) ==
    LET at == KeysInOrder(results)
        ids == IdsFrom(results, g, 1, 1)
        Offending(q) == results[at[q][1]][at[q][2]][1] \in DelegatedLifecycleKeys
        first == CHOOSE q \in 1..Len(at) :
                     Offending(q) /\ \A x \in 1..(q - 1) : ~ Offending(x)
    IN SubSeq(ids, 1, first - 1)

C25_DelegationErrorAborts ==
    /\ \A n \in Nodes :
          hist[n].threw = "delegation" =>
              AttachedIds(n) = IdsBeforeOffending(hist[n].results, gen[n])
    /\ \A i \in Frames("applyEventsToTarget") :
          HasDelegatedLifecycleKey(stack[i].results) => stack[i].dispatched = <<>>
    /\ \A i \in Frames("handler") :
          stack[i].type = "core:apply-target-results" =>
              \A q \in 1..(stack[i].i - 2) :
                  ~ HasDelegatedLifecycleKey(stack[i].payload[q][2])

\* The second apply-call for the div, with two maps, has thrown at the
\* second key of the second map: the div has the listeners of the three
\* keys before it, and main, next in the action, was not processed.
C25_Witness ==
    /\ stack = <<>>
    /\ lastError = "delegation"
    /\ hist["div"].results = <<MapSame, MapBad>>
    /\ gen["div"] = 2
    /\ AttachedIds("div") = << <<2, 1, 1>>, <<2, 1, 2>>, <<2, 2, 1>> >>
    /\ gen["main"] = 0

(***************************************************************************)
(* C26: whenever the engine is at rest, after a host action that completed *)
(* or was aborted by an error, the eventHandler listeners attached to a    *)
(* node are, per event type and in order, the functions its registry entry *)
(* holds for that type, and a node without an entry has none attached.     *)
(***************************************************************************)
\* The eventHandler functions attached to n for one event type, in order.
AttachedOfType(n, type) ==
    LET Is(l) == l.fn.kind = "eventHandler" /\ l.type = type
        hs == SelectSeq(listeners[n], Is)
    IN [i \in 1..Len(hs) |-> hs[i].fn]

\* The functions the registry entry of n holds for one event type.
HeldOfType(n, type) ==
    IF n \in DOMAIN targetHandlers
    THEN LET at == { i \in 1..Len(targetHandlers[n]) :
                         targetHandlers[n][i][1] = type }
         IN IF at = {} THEN <<>>
            ELSE targetHandlers[n][CHOOSE i \in at : TRUE][2]
    ELSE <<>>

\* The event types a node has a listener or a registry key for.
TypesAt(n) ==
    { listeners[n][i].type : i \in 1..Len(listeners[n]) }
    \union (IF n \in DOMAIN targetHandlers
            THEN { targetHandlers[n][i][1] : i \in 1..Len(targetHandlers[n]) }
            ELSE {})

C26_RegistryConsistent ==
    stack = <<>> =>
        \A n \in Nodes :
            /\ \A type \in TypesAt(n) :
                   AttachedOfType(n, type) = HeldOfType(n, type)
            /\ n \notin DOMAIN targetHandlers => AttachedIds(n) = <<>>

\* After an apply-action for main and the div and their removal, a second
\* apply-call for the div was aborted at its second key.
C26_Witness ==
    /\ stack = <<>>
    /\ hist["div"].threw = "delegation"
    /\ gen["div"] = 2
    /\ AttachedIds("div") = << <<2, 1, 1>> >>
    /\ gen["main"] = 1
    /\ "main" \notin DOMAIN targetHandlers
    /\ hist["main"].removed

(***************************************************************************)
(* C27: removeTargetHandlers for a target without a registry entry returns *)
(* at once: it dispatches no amara:remove, leaves every listener list, the *)
(* registry, the gate flag and the root as they are, raises no error, and  *)
(* the forEach of handler goes on with the next target.                    *)
(***************************************************************************)
RemovingWithoutEntry ==
    /\ Running("removeTargetHandlers", "get")
    /\ Top.target \notin DOMAIN targetHandlers

NothingRemoved ==
    /\ stack' = Pop
    /\ Top.dispatched = <<>>
    /\ hist'[Top.target].removeCount = hist[Top.target].removeCount
    /\ listeners' = listeners
    /\ targetHandlers' = targetHandlers
    /\ async' = async
    /\ root' = root
    /\ lastError' = lastError

C27_RemoveWithoutEntry == [][RemovingWithoutEntry => NothingRemoved]_vars

\* Of the payload [main, div], main, never applied, has been passed over,
\* and the div, which has bindings, is next.
C27_Witness ==
    /\ Running("handler", "forEach")
    /\ Top.type = "engine:targets-removed"
    /\ Top.payload = <<"main", "div">>
    /\ Top.i = 2
    /\ gen["main"] = 0
    /\ hist["main"].removed
    /\ "div" \in DOMAIN targetHandlers
    /\ AttachedIds("div") # <<>>

(***************************************************************************)
(* C28: an operation of the engine fails with the delegation error or the  *)
(* synchronous-dispatch error or not at all; every key of an apply-call,   *)
(* the empty key and keys that begin with whitespace included, is bound or *)
(* rejected with the delegation error.                                     *)
(***************************************************************************)
C28_OnlyTwoErrors ==
    /\ lastError \in {Null, "delegation", "synchronous"}
    /\ \A n \in Nodes : hist[n].threw \in {Null, "delegation"}

(***************************************************************************)
(* C29: an apply-call has dispatched amara:add by the time it ends,        *)
(* whether it returns or throws, exactly if the target had no registry     *)
(* entry when the call began and the call bound at least one key; so each  *)
(* lifetime of a registry entry, the ones after a removal included, begins *)
(* with one amara:add.                                                     *)
(***************************************************************************)
\* The step that ends the running apply-call: its frame leaves the stack.
ApplyCallEnds ==
    /\ stack # <<>>
    /\ Top.kind = "applyEventsToTarget"
    /\ Len(stack') < Len(stack)

\* Top.n - 1 keys have been bound by the call.
AddIffEntryBegun ==
    (\E j \in 1..Len(Top.dispatched) : Top.dispatched[j] = s_add)
        <=> (~ Top.hadEntry /\ Top.n > 1)

C29_AddRestarts == [][ApplyCallEnds => AddIffEntryBegun]_vars

(***************************************************************************)
(* C30: when a call of applyEventsToTarget or removeTargetHandlers for a   *)
(* target ends, by returning or by throwing, the recorded root and the     *)
(* registry entries and listener lists of all other nodes are what they    *)
(* were when the call began.                                               *)
(***************************************************************************)
\* The step that ends the running call for Top.target.
TargetCallEnds ==
    /\ stack # <<>>
    /\ Top.kind \in {"applyEventsToTarget", "removeTargetHandlers"}
    /\ Len(stack') < Len(stack)

OthersAsBefore ==
    /\ root' = Top.before.root
    /\ DOMAIN targetHandlers' \ {Top.target} = DOMAIN Top.before.entries
    /\ \A n \in DOMAIN Top.before.entries :
           targetHandlers'[n] = Top.before.entries[n]
    /\ \A n \in Nodes \ {Top.target} : listeners'[n] = Top.before.attached[n]

C30_OtherTargetsUnchanged == [][TargetCallEnds => OthersAsBefore]_vars

\* The apply-calls for main and for the div of one action have returned;
\* main is the root, so the lifecycle events of the div's call had
\* proxyToAmara attached to main while they were dispatched.
C30_Witness ==
    /\ Running("handler", "forEach")
    /\ Top.type = "core:apply-target-results"
    /\ Len(Top.payload) = 2
    /\ Top.i = 3
    /\ root = "main"
    /\ AttachedIds("main") # <<>>
    /\ hist["div"].complete
    /\ hist["div"].addCount = 1

====
